---- MODULE Spec2Model ----
(***************************************************************************)
(* Model of pyRdfa/property.py: the value handling of @property            *)
(* (class ProcessProperty).  Strings are sequences of one-character        *)
(* strings, RDF terms are records tagged by "kind".                        *)
(***************************************************************************)
EXTENDS Integers, Sequences, FiniteSets, TLC

VARIABLES node, state, typed_resource, graph, list_mapping, warnings, calls,
          rdflib_version, XSDToPython, args, ret, pc

vars == <<node, state, typed_resource, graph, list_mapping, warnings, calls,
          rdflib_version, XSDToPython, args, ret, pc>>

-----------------------------------------------------------------------------
(* Bounds of the explored inputs *)

MaxTextLen == 1

MaxNodes == 4

MaxAttrs == 2

MaxProps == 2

MaxValLen == 2

-----------------------------------------------------------------------------
(* Strings *)

SeqsUpTo(S, n) == UNION { [1..k -> S] : k \in 0..n }

RECURSIVE Replace(_, _, _)
Replace(str, c, r) ==
    IF str = <<>> THEN <<>>
    ELSE (IF Head(str) = c THEN r ELSE <<Head(str)>>) \o Replace(Tail(str), c, r)

\* the characters Python's str.strip() removes
PyWhitespace == {" ", "\t", "\n", "\r", "\f"}

RECURSIVE LStrip(_)
LStrip(str) ==
    IF str # <<>> /\ Head(str) \in PyWhitespace THEN LStrip(Tail(str)) ELSE str

RECURSIVE RStrip(_)
RStrip(str) ==
    IF str # <<>> /\ str[Len(str)] \in PyWhitespace
    THEN RStrip(SubSeq(str, 1, Len(str) - 1)) ELSE str

Strip(str) == RStrip(LStrip(str))

\* the alternatives of the regular expression (\r| |\n|\t)+
ReSpace == {"\r", " ", "\n", "\t"}

\* re.sub(r'(\r| |\n|\t)+', " ", str): leftmost maximal matches, each replaced by one space
RECURSIVE ReSubSpace(_)
ReSubSpace(str) ==
    IF str = <<>> THEN <<>>
    ELSE IF Head(str) \in ReSpace
         THEN IF Tail(str) # <<>> /\ Head(Tail(str)) \in ReSpace
              THEN ReSubSpace(Tail(str))
              ELSE <<" ">> \o ReSubSpace(Tail(str))
         ELSE <<Head(str)>> \o ReSubSpace(Tail(str))

\* Python compares strings by code point; the version strings use only these
CharOrder == <<".", "0", "1", "2", "3", "4", "5", "6", "7", "8", "9">>

Ord(c) == CHOOSE i \in 1..Len(CharOrder) : CharOrder[i] = c

RECURSIVE StrLess(_, _)
StrLess(a, b) ==
    IF b = <<>> THEN FALSE
    ELSE IF a = <<>> THEN TRUE
    ELSE IF Head(a) = Head(b) THEN StrLess(Tail(a), Tail(b))
    ELSE Ord(Head(a)) < Ord(Head(b))

-----------------------------------------------------------------------------
(* Python values and RDF terms (rdflib) *)

None == [kind |-> "None"]

PyStr(s) == [kind |-> "str", s |-> s]

URIRef(id) == [kind |-> "URIRef", id |-> id]

BNode(id) == [kind |-> "BNode", id |-> id]

\* rdflib.Literal(value, lang=None, datatype=None)
Literal(value, lang, datatype) ==
    [kind |-> "Literal", lexical |-> value, language |-> lang, datatype |-> datatype]

XMLLiteral == URIRef("rdf:XMLLiteral")

HTMLLiteral == URIRef("rdf:HTML")

-----------------------------------------------------------------------------
(* DOM nodes: the capability set the code uses *)

TEXT_NODE == 3

ELEMENT_NODE == 1

TextNode(data) == [nodeType |-> TEXT_NODE, data |-> data]

Element(attrs, childNodes) ==
    [nodeType |-> ELEMENT_NODE, attrs |-> attrs, childNodes |-> childNodes]

NoAttrs == [a \in {} |-> <<>>]

hasAttribute(n, a) == a \in DOMAIN n.attrs

getAttribute(n, a) == n.attrs[a]

\* all child sequences with exactly n nodes in total, text data drawn from texts
RECURSIVE Forests(_, _)
RECURSIVE TreesOfSize(_, _)
Forests(n, texts) ==
    IF n = 0 THEN { <<>> }
    ELSE UNION { { <<first>> \o rest : first \in TreesOfSize(k, texts),
                                       rest \in Forests(n - k, texts) } : k \in 1..n }

TreesOfSize(k, texts) ==
    (IF k = 1 THEN { TextNode(t) : t \in texts } ELSE {})
    \cup { Element(NoAttrs, f) : f \in Forests(k - 1, texts) }

ForestsUpTo(n, texts) == UNION { Forests(k, texts) : k \in 0..n }

-----------------------------------------------------------------------------
(* ProcessProperty._putBackEntities *)

_putBackEntities(str) ==
    Replace(Replace(Replace(str, "&", <<"&", "a", "m", "p", ";">>),
                    "<", <<"&", "l", "t", ";">>),
            ">", <<"&", "g", "t", ";">>)

(* ProcessProperty._get_literal *)

RECURSIVE _get_literal(_, _)
RECURSIVE _get_literal_rc(_, _, _)
_get_literal_rc(childNodes, i, space_preserve) ==
    IF i > Len(childNodes) THEN <<>>
    ELSE (IF childNodes[i].nodeType = TEXT_NODE
          THEN childNodes[i].data
          ELSE IF childNodes[i].nodeType = ELEMENT_NODE
               THEN _get_literal(childNodes[i], space_preserve)
               ELSE <<>>)
         \o _get_literal_rc(childNodes, i + 1, space_preserve)

_get_literal(Pnode, space_preserve) ==
    LET rc == _get_literal_rc(Pnode.childNodes, 1, space_preserve)
    IN  IF space_preserve THEN rc ELSE Strip(ReSubSpace(rc))

(* utils.return_XML(state, node, base = False, xmlns = True): the markup of an
   element child, with or without the namespace declaration *)

RECURSIVE toxml(_, _)
toxml(childNodes, i) ==
    IF i > Len(childNodes) THEN <<>>
    ELSE (IF childNodes[i].nodeType = TEXT_NODE
          THEN _putBackEntities(childNodes[i].data)
          ELSE <<"<e>">> \o toxml(childNodes[i].childNodes, 1) \o <<"</e>">>)
         \o toxml(childNodes, i + 1)

return_XML(n, xmlns) ==
    (IF xmlns THEN <<"<e xmlns>">> ELSE <<"<e>">>)
    \o toxml(n.childNodes, 1) \o <<"</e>">>

(* ProcessProperty._get_XML_literal *)

RECURSIVE _get_XML_literal_rc(_, _)
_get_XML_literal_rc(childNodes, i) ==
    IF i > Len(childNodes) THEN <<>>
    ELSE (IF childNodes[i].nodeType = TEXT_NODE
          THEN _putBackEntities(childNodes[i].data)
          ELSE IF childNodes[i].nodeType = ELEMENT_NODE
               THEN return_XML(childNodes[i], TRUE)
               ELSE <<>>)
         \o _get_XML_literal_rc(childNodes, i + 1)

_get_XML_literal(Pnode) == _get_XML_literal_rc(Pnode.childNodes, 1)

(* ProcessProperty._get_HTML_literal *)

RECURSIVE _get_HTML_literal_rc(_, _)
_get_HTML_literal_rc(childNodes, i) ==
    IF i > Len(childNodes) THEN <<>>
    ELSE (IF childNodes[i].nodeType = TEXT_NODE
          THEN _putBackEntities(childNodes[i].data)
          ELSE IF childNodes[i].nodeType = ELEMENT_NODE
               THEN return_XML(childNodes[i], FALSE)
               ELSE <<>>)
         \o _get_HTML_literal_rc(childNodes, i + 1)

_get_HTML_literal(Pnode) == _get_HTML_literal_rc(Pnode.childNodes, 1)

-----------------------------------------------------------------------------
(* Warnings: state.options.add_warning(message, warning_type, node) *)

IncorrectBlankNodeUsage == "IncorrectBlankNodeUsage"

IncorrectLiteral == "IncorrectLiteral"

Warning(type, about) == [warning_type |-> type, about |-> about]

-----------------------------------------------------------------------------
(* ProcessProperty._create_Literal *)

\* host.html5.handled_time_types, as the strings "%s" % datatype is compared to
handled_time_types == {"xsd:dateTime", "xsd:gYear"}

Digits == {"0", "1", "2", "3", "4", "5", "6", "7", "8", "9"}

\* the conversion functions the table XSDToPython can hold: TRUE when the call
\* convFunc(val) raises
Raises(convFunc, val) ==
    LET v == Strip(val)
    IN  IF convFunc = "int"
        THEN v = <<>> \/ \E i \in 1..Len(v) : v[i] \notin Digits
        ELSE IF convFunc = "parse_datetime"
        THEN v = <<>> \/ v[1] \notin Digits \/ v[Len(v)] # "T"
        ELSE FALSE

\* XSDToPython.get(datatype, None); "None" is a missing entry or an entry of None
XSDToPython_get(datatype) ==
    IF datatype.kind = "URIRef" /\ datatype.id \in DOMAIN XSDToPython
    THEN XSDToPython[datatype.id] ELSE "None"

VersionLimit == <<"3", ".", "2", ".", "0">>

\* faulty variant: the lookup is never skipped
convFuncFor_always_looked_up(datatype) == XSDToPython_get(datatype)

\* the conversion function _create_Literal ends up with ("None": nothing to call)
convFuncFor(datatype) ==
    IF datatype.id \in handled_time_types /\ StrLess(rdflib_version, VersionLimit)
    THEN "None"
    ELSE XSDToPython_get(datatype)

\* faulty variant: a failing conversion drops the datatype
_create_Literal_rejects(val, datatype, lang) ==
    IF datatype = None \/ datatype = PyStr(<<>>)
    THEN [object |-> Literal(val, lang, None), warnings |-> <<>>]
    ELSE LET convFunc == convFuncFor(datatype)
         IN  IF convFunc # "None" /\ Raises(convFunc, val)
             THEN [object |-> Literal(val, lang, None), warnings |-> <<>>]
             ELSE [object |-> Literal(val, None, datatype), warnings |-> <<>>]

\* faulty variant: the language is passed on together with the datatype
_create_Literal_keeps_lang(val, datatype, lang) ==
    IF datatype = None \/ datatype = PyStr(<<>>)
    THEN [object |-> Literal(val, lang, None), warnings |-> <<>>]
    ELSE LET convFunc == convFuncFor(datatype)
         IN  [object   |-> Literal(val, lang, datatype),
              warnings |-> IF convFunc # "None" /\ Raises(convFunc, val)
                           THEN << Warning(IncorrectLiteral, <<val, datatype>>) >>
                           ELSE <<>>]

\* returns the literal and the warnings the call records
_create_Literal(val, datatype, lang) ==
    IF datatype = None \/ datatype = PyStr(<<>>)
    THEN [object |-> Literal(val, lang, None), warnings |-> <<>>]
    ELSE LET convFunc == convFuncFor(datatype)
         IN  [object   |-> Literal(val, None, datatype),
              warnings |-> IF convFunc # "None" /\ Raises(convFunc, val)
                           THEN << Warning(IncorrectLiteral, <<val, datatype>>) >>
                           ELSE <<>>]

-----------------------------------------------------------------------------
(* Collaborators of generate: utils.has_one_of_attributes, state.getURI,
   state.getResource *)

has_one_of_attributes(n, names) == \E i \in 1..Len(names) : hasAttribute(n, names[i])

getURI(attr) == state.URI[attr]

RECURSIVE getResource_from(_, _)
getResource_from(names, i) ==
    IF i > Len(names) THEN None
    ELSE IF getURI(names[i]) # None THEN getURI(names[i])
    ELSE getResource_from(names, i + 1)

getResource(names) == getResource_from(names, 1)

subject == URIRef("subject")

-----------------------------------------------------------------------------
(* ProcessProperty.generate_1_1: the value *)

irirefs == <<"resource", "href", "src">>

noiri == <<"content", "datatype", "rel", "rev">>

notypediri == <<"content", "datatype", "rel", "rev", "about", "about_pruned">>

\* lines 94-100 and 158-164: the datatype and whether @datatype is there at all
datatype_of(n) ==
    IF hasAttribute(n, "datatype")
    THEN [dtset    |-> TRUE,
          datatype |-> IF getAttribute(n, "datatype") # <<>>
                       THEN getURI("datatype") ELSE PyStr(<<>>)]
    ELSE [dtset |-> FALSE, datatype |-> PyStr(<<>>)]

NoWarnings(object) == [object |-> object, warnings |-> <<>>]

\* lines 129-134 and 192-197: the HTML literal, built directly under Python 3
\* and through an intermediate XML literal under Python 2
html_literal(n, py3) ==
    IF py3
    THEN Literal(_get_HTML_literal(n), None, HTMLLiteral)
    ELSE Literal(Literal(_get_HTML_literal(n), None, XMLLiteral).lexical, None, HTMLLiteral)

\* faulty variant: an XML literal gets the extracted text
literal_1_1_text_for_xml(py3) ==
    LET dt       == datatype_of(node)
        datatype == dt.datatype
        dtset    == dt.dtset
        lang     == IF state.lang # None /\ state.supress_lang = FALSE
                    THEN state.lang ELSE PyStr(<<>>)
        text     == _get_literal(node, state.options.space_preserve)
    IN  IF hasAttribute(node, "content")
        THEN IF dtset = FALSE
             THEN NoWarnings(Literal(getAttribute(node, "content"), lang, None))
             ELSE _create_Literal(getAttribute(node, "content"), datatype, lang)
        ELSE IF dtset
             THEN IF datatype = XMLLiteral
                  THEN NoWarnings(Literal(text, None, XMLLiteral))
                  ELSE IF datatype = HTMLLiteral
                  THEN NoWarnings(html_literal(node, py3))
                  ELSE _create_Literal(text, datatype, lang)
             ELSE _create_Literal(text, PyStr(<<>>), lang)

\* lines 94-138
literal_1_1(py3) ==
    LET dt       == datatype_of(node)
        datatype == dt.datatype
        dtset    == dt.dtset
        lang     == IF state.lang # None /\ state.supress_lang = FALSE
                    THEN state.lang ELSE PyStr(<<>>)
        text     == _get_literal(node, state.options.space_preserve)
    IN  IF hasAttribute(node, "content")
        THEN IF dtset = FALSE
             THEN NoWarnings(Literal(getAttribute(node, "content"), lang, None))
             ELSE _create_Literal(getAttribute(node, "content"), datatype, lang)
        ELSE IF dtset
             THEN IF datatype = XMLLiteral
                  THEN NoWarnings(Literal(_get_XML_literal(node), None, XMLLiteral))
                  ELSE IF datatype = HTMLLiteral
                  THEN NoWarnings(html_literal(node, py3))
                  ELSE _create_Literal(text, datatype, lang)
             ELSE _create_Literal(text, PyStr(<<>>), lang)

\* faulty variant: the typed resource is looked at before the reference attributes
object_1_1_typed_first(py3) ==
    IF /\ hasAttribute(node, "typeof")
       /\ ~has_one_of_attributes(node, notypediri)
       /\ typed_resource # None
    THEN NoWarnings(typed_resource)
    ELSE IF has_one_of_attributes(node, irirefs) /\ ~has_one_of_attributes(node, noiri)
    THEN NoWarnings(getResource(irirefs))
    ELSE literal_1_1(py3)

\* faulty variant: the typed resource is excluded by noiri, not by notypediri
object_1_1_noiri(py3) ==
    IF has_one_of_attributes(node, irirefs) /\ ~has_one_of_attributes(node, noiri)
    THEN NoWarnings(getResource(irirefs))
    ELSE IF /\ hasAttribute(node, "typeof")
            /\ ~has_one_of_attributes(node, noiri)
            /\ typed_resource # None
    THEN NoWarnings(typed_resource)
    ELSE literal_1_1(py3)

\* lines 81-138
object_1_1(py3) ==
    IF has_one_of_attributes(node, irirefs) /\ ~has_one_of_attributes(node, noiri)
    THEN NoWarnings(getResource(irirefs))
    ELSE IF /\ hasAttribute(node, "typeof")
            /\ ~has_one_of_attributes(node, notypediri)
            /\ typed_resource # None
    THEN NoWarnings(typed_resource)
    ELSE literal_1_1(py3)

\* faulty variant: the 1.0 version takes the literal of the 1.1 version
object_1_0_as_1_1(py3) == literal_1_1(py3)

(* ProcessProperty.generate_1_0: the value, lines 158-209 *)

object_1_0(py3) ==
    LET dt       == datatype_of(node)
        datatype == dt.datatype
        dtset    == dt.dtset
        lang     == IF state.lang # None THEN state.lang ELSE PyStr(<<>>)
        text     == _get_literal(node, state.options.space_preserve)
    IN  IF hasAttribute(node, "content")
        THEN IF dtset = FALSE
             THEN NoWarnings(Literal(getAttribute(node, "content"), lang, None))
             ELSE _create_Literal(getAttribute(node, "content"), datatype, lang)
        ELSE IF dtset
             THEN IF datatype = XMLLiteral
                  THEN NoWarnings(Literal(_get_XML_literal(node), None, XMLLiteral))
                  ELSE IF datatype = HTMLLiteral
                  THEN NoWarnings(html_literal(node, py3))
                  ELSE _create_Literal(text, datatype, lang)
             ELSE IF \E i \in 1..Len(node.childNodes) :
                         node.childNodes[i].nodeType = ELEMENT_NODE
                  THEN _create_Literal(_get_XML_literal(node), XMLLiteral, PyStr(<<>>))
                  ELSE _create_Literal(text, PyStr(<<>>), lang)

-----------------------------------------------------------------------------
(* The sinks generate writes to: graph.add, state.add_to_list_mapping,
   state.options.add_warning; calls is the order in which they were called *)

Sinks(g, l, w, c) == [graph |-> g, list_mapping |-> l, warnings |-> w, calls |-> c]

graph_add(s, triple) ==
    [s EXCEPT !.graph = @ \cup {triple},
              !.calls = Append(@, [op |-> "graph.add", arg |-> triple])]

add_to_list_mapping(s, prop, object) ==
    [s EXCEPT !.list_mapping = Append(@, <<prop, object>>),
              !.calls = Append(@, [op |-> "add_to_list_mapping", arg |-> <<prop, object>>])]

add_warning(s, w) ==
    [s EXCEPT !.warnings = Append(@, w),
              !.calls = Append(@, [op |-> "add_warning", arg |-> w])]

RECURSIVE add_warnings(_, _, _)
add_warnings(s, ws, i) ==
    IF i > Len(ws) THEN s ELSE add_warnings(add_warning(s, ws[i]), ws, i + 1)

\* lines 142-148: one round of the loop over the predicates
prop_1_1(s, prop, object) ==
    IF prop.kind # "BNode"
    THEN IF hasAttribute(node, "inlist")
         THEN add_to_list_mapping(s, prop, object)
         ELSE graph_add(s, <<subject, prop, object>>)
    ELSE add_warning(s, Warning(IncorrectBlankNodeUsage, "property"))

\* faulty variant: the 1.0 version routes by inlist too
prop_1_0_inlist(s, prop, object) == prop_1_1(s, prop, object)

\* lines 212-215
prop_1_0(s, prop, object) ==
    IF prop.kind # "BNode"
    THEN graph_add(s, <<subject, prop, object>>)
    ELSE add_warning(s, Warning(IncorrectBlankNodeUsage, "property"))

\* faulty variant: a blank node ends the loop
RECURSIVE emit_1_1_break(_, _, _, _)
emit_1_1_break(s, props, i, object) ==
    IF i > Len(props) THEN s
    ELSE IF props[i].kind = "BNode" THEN prop_1_1(s, props[i], object)
    ELSE emit_1_1_break(prop_1_1(s, props[i], object), props, i + 1, object)

RECURSIVE emit_1_1(_, _, _, _)
emit_1_1(s, props, i, object) ==
    IF i > Len(props) THEN s
    ELSE emit_1_1(prop_1_1(s, props[i], object), props, i + 1, object)

RECURSIVE emit_1_0(_, _, _, _)
emit_1_0(s, props, i, object) ==
    IF i > Len(props) THEN s
    ELSE emit_1_0(prop_1_0(s, props[i], object), props, i + 1, object)

Current == Sinks(graph, list_mapping, warnings, calls)

Commit(s) ==
    /\ graph' = s.graph
    /\ list_mapping' = s.list_mapping
    /\ warnings' = s.warnings
    /\ calls' = s.calls

-----------------------------------------------------------------------------
(* ProcessProperty.generate and its two versions *)

V_1_1 == <<"1", ".", "1">>

generate_1_1 ==
    /\ pc = "start"
    /\ ~StrLess(state.rdfa_version, V_1_1)
    /\ \E py3 \in BOOLEAN :
         LET r == object_1_1(py3)
             s == add_warnings(Current, r.warnings, 1)
         IN  /\ ret' = r.object
             /\ Commit(IF r.object # None
                       THEN emit_1_1(s, getURI("property"), 1, r.object)
                       ELSE s)
    /\ pc' = "done_1_1"
    /\ UNCHANGED <<node, state, typed_resource, rdflib_version, XSDToPython, args>>

generate_1_0 ==
    /\ pc = "start"
    /\ StrLess(state.rdfa_version, V_1_1)
    /\ \E py3 \in BOOLEAN :
         LET r == object_1_0(py3)
             s == add_warnings(Current, r.warnings, 1)
         IN  /\ ret' = r.object
             /\ Commit(emit_1_0(s, getURI("property"), 1, r.object))
    /\ pc' = "done_1_0"
    /\ UNCHANGED <<node, state, typed_resource, rdflib_version, XSDToPython, args>>

generate == generate_1_1 \/ generate_1_0

-----------------------------------------------------------------------------
(* Inputs of generate *)

AttrNames == {"resource", "href", "src", "content", "datatype", "rel", "rev",
              "about", "about_pruned", "typeof", "inlist"}

ContentVals == { <<"1">>, <<" ", "&">> }

AttrVals(a) ==
    IF a = "datatype" THEN { <<>>, <<"d">> }
    ELSE IF a = "content" THEN ContentVals
    ELSE { <<"v">> }

AllAttrVals == UNION { AttrVals(a) : a \in AttrNames }

\* the attribute maps over at most max of the given names
AttrMaps(names, max) ==
    UNION { { f \in [S -> AllAttrVals] : \A a \in S : f[a] \in AttrVals(a) } :
            S \in { T \in SUBSET names : Cardinality(T) <= max } }

\* what @datatype can resolve to
DatatypeTerms == {XMLLiteral, HTMLLiteral, URIRef("xsd:integer"),
                  URIRef("xsd:dateTime"), None}

Predicates == {URIRef("p1"), URIRef("p2"), BNode("b")}

Langs == {None, PyStr(<<"e", "n">>)}

RdfaVersions == { <<"1", ".", "0">>, <<"1", ".", "1">> }

RdflibVersions == { <<"2", ".", "4", ".", "2">>, <<"3", ".", "1", ".", "0">>,
                    <<"3", ".", "2", ".", "0">>, <<"4", ".", "2", ".", "2">> }

\* rdflib's table: datatype -> conversion function
DefaultTable ==
    [k \in {"xsd:integer", "xsd:dateTime", "xsd:date", "xsd:string"} |->
        IF k = "xsd:integer" THEN "int"
        ELSE IF k = "xsd:string" THEN "None" ELSE "parse_datetime"]

\* the children of the element: none, text, text to escape and to normalise, markup
GenChildren ==
    { <<>>,
      << TextNode(<<"1">>) >>,
      << TextNode(<<" ", "&", " ">>) >>,
      << TextNode(<<"1", " ">>), Element(NoAttrs, << TextNode(<<"<">>) >>) >> }

\* the resolver results the execution context holds for this element
URIFor(attrs, dt, props) ==
    [a \in {"property", "datatype", "resource", "href", "src"} |->
        IF a = "property" THEN props
        ELSE IF a = "datatype" THEN dt
        ELSE IF a \in DOMAIN attrs THEN URIRef(a) ELSE None]

Context(v, l, sl, sp, uri) ==
    [rdfa_version |-> v, lang |-> l, supress_lang |-> sl,
     options |-> [space_preserve |-> sp], URI |-> uri]

InitWith(attrMaps, children, propLists, langs, bools, versions, graphs, lists) ==
    /\ \E attrs \in attrMaps, ch \in children, props \in propLists,
          v \in RdfaVersions, l \in langs, sl \in bools, sp \in bools,
          dt \in DatatypeTerms :
            /\ dt # None => ("datatype" \in DOMAIN attrs /\ attrs["datatype"] # <<>>)
            /\ node = Element(attrs, ch)
            /\ state = Context(v, l, sl, sp, URIFor(attrs, dt, props))
    /\ typed_resource \in {None, BNode("typed")}
    /\ graph \in graphs
    /\ list_mapping \in lists
    /\ warnings = <<>>
    /\ calls = <<>>
    /\ rdflib_version \in versions
    /\ XSDToPython = DefaultTable
    /\ args = <<>>
    /\ ret = None
    /\ pc = "start"

\* every combination of at most MaxAttrs attributes, two predicate lists
InitValue ==
    InitWith(AttrMaps(AttrNames, MaxAttrs), GenChildren,
             { << URIRef("p1") >>, << BNode("b"), URIRef("p2") >> },
             Langs, BOOLEAN, { <<"3", ".", "1", ".", "0">>, <<"3", ".", "2", ".", "0">> },
             { {} }, { <<>> })

\* what the graph and the list mapping may hold before generate runs
Before == <<subject, URIRef("p0"), URIRef("o0")>>

\* every predicate list of at most MaxProps entries, the attributes that route
InitEmit ==
    InitWith(AttrMaps({"inlist", "resource", "content", "typeof"}, 4), { <<>> },
             SeqsUpTo(Predicates, MaxProps),
             {None}, {FALSE}, { <<"4", ".", "2", ".", "2">> },
             { {}, {Before} }, { <<>>, << <<URIRef("p0"), URIRef("o0")>> >> })

Init == InitValue \/ InitEmit

Next == generate_1_1 \/ generate_1_0

Spec == Init /\ [][Next]_vars

-----------------------------------------------------------------------------
(* Specification of _create_Literal alone *)

LitChars == {"1", "T"}

LitVals == SeqsUpTo(LitChars, MaxValLen)

TableKeys == {"xsd:integer", "xsd:dateTime", "xsd:date"}

Tables ==
    UNION { [S -> {"None", "int", "parse_datetime"}] : S \in SUBSET TableKeys }

DatatypeArgs == { PyStr(<<>>), None } \cup { URIRef(k) : k \in TableKeys }

Idle == Context(<<"1", ".", "1">>, None, FALSE, TRUE, URIFor(NoAttrs, None, <<>>))

InitLit ==
    /\ args \in [val : LitVals, datatype : DatatypeArgs, lang : { PyStr(<<>>), PyStr(<<"e", "n">>) }]
    /\ rdflib_version \in RdflibVersions
    /\ XSDToPython \in Tables
    /\ node = Element(NoAttrs, <<>>)
    /\ state = Idle
    /\ typed_resource = None
    /\ graph = {}
    /\ list_mapping = <<>>
    /\ warnings = <<>>
    /\ calls = <<>>
    /\ ret = None
    /\ pc = "start"

create_Literal ==
    /\ pc = "start"
    /\ LET r == _create_Literal(args.val, args.datatype, args.lang)
       IN  /\ ret' = r.object
           /\ Commit(add_warnings(Current, r.warnings, 1))
    /\ pc' = "done"
    /\ UNCHANGED <<node, state, typed_resource, rdflib_version, XSDToPython, args>>

NextLit == create_Literal

SpecLit == InitLit /\ [][NextLit]_vars

-----------------------------------------------------------------------------
(* Specification of the text extraction alone *)

TextChars == {"a", " ", "\n", "\t", "\r"}

Texts == SeqsUpTo(TextChars, MaxTextLen) \ { <<>> }

InitText ==
    /\ node \in { Element(NoAttrs, f) : f \in ForestsUpTo(MaxNodes, Texts) }
    /\ state \in { [Idle EXCEPT !.options.space_preserve = sp] : sp \in BOOLEAN }
    /\ typed_resource = None
    /\ graph = {}
    /\ list_mapping = <<>>
    /\ warnings = <<>>
    /\ calls = <<>>
    /\ rdflib_version = <<"4", ".", "2", ".", "2">>
    /\ XSDToPython = DefaultTable
    /\ args = <<>>
    /\ ret = None
    /\ pc = "start"

get_literal ==
    /\ pc = "start"
    /\ ret' = PyStr(_get_literal(node, state.options.space_preserve))
    /\ pc' = "done"
    /\ UNCHANGED <<node, state, typed_resource, graph, list_mapping, warnings,
                   calls, rdflib_version, XSDToPython, args>>

NextText == get_literal

SpecText == InitText /\ [][NextText]_vars

-----------------------------------------------------------------------------
(* Vocabulary of the properties *)

Done_1_1 == pc = "done_1_1"

Done_1_0 == pc = "done_1_0"

Generated == Done_1_1 \/ Done_1_0

Has(a) == a \in DOMAIN node.attrs

IsEmission(c) == c.op \in {"graph.add", "add_to_list_mapping"}

IsBlank(p) == p.kind = "BNode"

NotBlank(p) == p.kind # "BNode"

IsBlankWarning(w) == w.warning_type = IncorrectBlankNodeUsage

IsLiteralWarning(w) == w.warning_type = IncorrectLiteral

\* the calls that emitted a value, in order
Emissions == SelectSeq(calls, IsEmission)

PredicateOf(c) == IF c.op = "graph.add" THEN c.arg[2] ELSE c.arg[1]

ValueOf(c) == IF c.op = "graph.add" THEN c.arg[3] ELSE c.arg[2]

EmittedValues == { ValueOf(Emissions[i]) : i \in 1..Len(Emissions) }

NoTag(l) == l.language \in {None, PyStr(<<>>)}

NoDatatype(l) == l.datatype \in {None, PyStr(<<>>)}

HasElementChild ==
    \E i \in 1..Len(node.childNodes) : node.childNodes[i].nodeType = ELEMENT_NODE

DatatypeIsXMLLiteral ==
    Has("datatype") /\ node.attrs["datatype"] # <<>> /\ state.URI["datatype"] = XMLLiteral

ReferenceBranch ==
    /\ Has("resource") \/ Has("href") \/ Has("src")
    /\ ~(Has("content") \/ Has("datatype") \/ Has("rel") \/ Has("rev"))

\* first-present-wins among resource, href, src
ResolvedReference ==
    state.URI[IF Has("resource") THEN "resource" ELSE IF Has("href") THEN "href" ELSE "src"]

-----------------------------------------------------------------------------
\* C1: in generate_1_1, an element with one of resource/href/src and none of
\* content/datatype/rel/rev emits, for every non-blank predicate, the reference
\* the resolver returned and never a literal
C1_ReferenceWins ==
    (Done_1_1 /\ ReferenceBranch) =>
        /\ ret = ResolvedReference
        /\ ret.kind # "Literal"
        /\ \A v \in EmittedValues : v = ResolvedReference

C1_Witness ==
    /\ Done_1_1 /\ ReferenceBranch
    /\ Has("typeof") /\ typed_resource # None
    /\ EmittedValues = {URIRef("href")}

\* C2 as stated: whenever @datatype resolves to XMLLiteral, in both versions,
\* the value is the XMLLiteral-typed strict serialization of the children
C2_Original ==
    (Generated /\ DatatypeIsXMLLiteral) =>
        ret = Literal(_get_XML_literal(node), None, XMLLiteral)

\* C2 amended: the same, for elements without a content attribute
C2_XMLLiteral ==
    (Generated /\ DatatypeIsXMLLiteral /\ ~Has("content")) =>
        /\ ret = Literal(_get_XML_literal(node), None, XMLLiteral)
        /\ \A v \in EmittedValues : v = ret

C2_Witness ==
    /\ Generated /\ DatatypeIsXMLLiteral /\ ~Has("content")
    /\ HasElementChild
    /\ ret.lexical = <<"1", " ", "<e xmlns>", "&", "l", "t", ";", "</e>">>
    /\ ret.lexical # _get_literal(node, state.options.space_preserve)
    /\ EmittedValues = {ret}

\* C3: after generate, in both versions, there is one IncorrectBlankNodeUsage
\* warning per blank-node predicate and one emission per non-blank predicate,
\* in the order of the list, each with the value; blank nodes stop nothing
C3_OnePerPredicate ==
    Generated =>
        LET props == state.URI["property"]
        IN  /\ Len(SelectSeq(warnings, IsBlankWarning)) = Len(SelectSeq(props, IsBlank))
            /\ Len(Emissions) = Len(SelectSeq(props, NotBlank))
            /\ \A i \in 1..Len(Emissions) :
                  /\ PredicateOf(Emissions[i]) = SelectSeq(props, NotBlank)[i]
                  /\ ValueOf(Emissions[i]) = ret

C3_Witness ==
    /\ Generated
    /\ state.URI["property"] = << BNode("b"), URIRef("p2"), BNode("b") >>
          \/ state.URI["property"] = << BNode("b"), URIRef("p2") >>
    /\ Len(SelectSeq(warnings, IsBlankWarning)) >= 1
    /\ Len(Emissions) = 1
    /\ PredicateOf(Emissions[1]) = URIRef("p2")

-----------------------------------------------------------------------------
(* _create_Literal called alone: its arguments are in args *)

Called == pc = "done"

NonEmptyDatatype == args.datatype \notin {None, PyStr(<<>>)}

\* the table holds a conversion function for the datatype, and it fails on val
ConversionFails ==
    /\ NonEmptyDatatype
    /\ args.datatype.id \in DOMAIN XSDToPython
    /\ XSDToPython[args.datatype.id] # "None"
    /\ Raises(XSDToPython[args.datatype.id], args.val)

\* the time-value family under an rdflib older than 3.2.0: the lookup is skipped
LookupSkipped ==
    /\ NonEmptyDatatype
    /\ args.datatype.id \in handled_time_types
    /\ StrLess(rdflib_version, <<"3", ".", "2", ".", "0">>)

LiteralWarnings == SelectSeq(warnings, IsLiteralWarning)

\* C4 as stated: a failing conversion of a datatype with a conversion function
\* gives the literal and exactly one IncorrectLiteral warning, anything else the
\* literal and no warning
C4_Original ==
    (Called /\ NonEmptyDatatype) =>
        /\ ret = Literal(args.val, None, args.datatype)
        /\ Len(LiteralWarnings) = IF ConversionFails THEN 1 ELSE 0

\* C4 amended: the same, except that in the skipped time-value case a failing
\* conversion records no warning either
C4_ValidateDontReject ==
    (Called /\ NonEmptyDatatype) =>
        /\ ret = Literal(args.val, None, args.datatype)
        /\ warnings = IF ConversionFails /\ ~LookupSkipped
                      THEN << Warning(IncorrectLiteral, <<args.val, args.datatype>>) >>
                      ELSE <<>>

C4_Witness ==
    /\ Called /\ ConversionFails /\ ~LookupSkipped
    /\ args.datatype = URIRef("xsd:integer") /\ args.val = <<"T">>
    /\ Len(warnings) = 1
    /\ ret.lexical = <<"T">> /\ ret.datatype = URIRef("xsd:integer")

\* C6 as stated: a datatype of the time-value family never gets an
\* IncorrectLiteral warning, whatever the table and the rdflib version
C6_Original ==
    (Called /\ NonEmptyDatatype /\ args.datatype.id \in handled_time_types) =>
        LiteralWarnings = <<>>

\* C6 amended: a datatype of the time-value family gets no IncorrectLiteral
\* warning, whatever the table, when rdflib's version is below "3.2.0"
C6_TimeTypesSkipped ==
    (Called /\ LookupSkipped) =>
        /\ LiteralWarnings = <<>>
        /\ ret = Literal(args.val, None, args.datatype)

C6_Witness ==
    /\ Called /\ LookupSkipped /\ ConversionFails
    /\ rdflib_version = <<"3", ".", "1", ".", "0">>
    /\ warnings = <<>>

-----------------------------------------------------------------------------
\* C7: every literal generate emits that has a non-empty datatype carries no
\* language tag, in both versions and on every branch
C7_DatatypeNoLanguage ==
    Generated =>
        \A v \in EmittedValues \cup {ret} :
            (v.kind = "Literal" /\ ~NoDatatype(v)) => NoTag(v)

C7_Witness ==
    /\ Generated
    /\ state.lang # None /\ state.supress_lang = FALSE
    /\ Has("content")
    /\ \E v \in EmittedValues :
          v.kind = "Literal" /\ v.datatype = URIRef("xsd:integer") /\ NoTag(v)

\* C8: in generate_1_1 outside the reference branch, typeof with none of
\* content/datatype/rel/rev/about/about_pruned and a typed resource gives the
\* typed resource; no typed resource or one of those attributes gives a literal
C8_TypedResource ==
    (Done_1_1 /\ ~ReferenceBranch) =>
        LET excluded == \E a \in {"content", "datatype", "rel", "rev", "about", "about_pruned"} : Has(a)
        IN  /\ (Has("typeof") /\ ~excluded /\ typed_resource # None) => ret = typed_resource
            /\ (typed_resource = None \/ excluded) => ret.kind = "Literal"

C8_Witness ==
    /\ Done_1_1 /\ ~ReferenceBranch
    /\ Has("typeof") /\ Has("inlist")
    /\ ret = BNode("typed")
    /\ ret \in EmittedValues

\* the (predicate, value) pairs of the non-blank predicates, in order
RECURSIVE Pairs(_, _)
Pairs(props, v) ==
    IF props = <<>> THEN <<>>
    ELSE (IF NotBlank(Head(props)) THEN << <<Head(props), v>> >> ELSE <<>>)
         \o Pairs(Tail(props), v)

Triples(props, v) ==
    { <<subject, props[i], v>> : i \in { j \in 1..Len(props) : NotBlank(props[j]) } }

\* C9: generate_1_1 with inlist appends (predicate, value) per non-blank
\* predicate to the list mapping and leaves the graph alone, without inlist it
\* adds the statements and leaves the list mapping alone; generate_1_0 always
\* adds the statements and leaves the list mapping alone
C9_Routing ==
    [][ pc = "start" =>
          LET props == state.URI["property"]
          IN  IF pc' = "done_1_1" /\ Has("inlist")
              THEN /\ graph' = graph
                   /\ list_mapping' = list_mapping \o Pairs(props, ret')
              ELSE /\ graph' = graph \cup Triples(props, ret')
                   /\ list_mapping' = list_mapping ]_vars

C9_Witness ==
    /\ Done_1_0 /\ Has("inlist")
    /\ list_mapping = << <<URIRef("p0"), URIRef("o0")>> >>
    /\ Cardinality(graph) = 3
    /\ Before \in graph

-----------------------------------------------------------------------------
\* the text of all descendant text nodes, in document order
RECURSIVE RawText(_, _)
RawText(childNodes, i) ==
    IF i > Len(childNodes) THEN <<>>
    ELSE (IF childNodes[i].nodeType = TEXT_NODE THEN childNodes[i].data
          ELSE RawText(childNodes[i].childNodes, 1))
         \o RawText(childNodes, i + 1)

\* C5: _get_literal returns the raw concatenation of all descendant text,
\* unmodified when space_preserve is on, and with every whitespace run
\* collapsed to one space and the final result trimmed once when it is off
C5_Extract ==
    pc = "done" =>
        ret = PyStr(IF state.options.space_preserve
                    THEN RawText(node.childNodes, 1)
                    ELSE Strip(ReSubSpace(RawText(node.childNodes, 1))))

====
